---- MODULE Spec2Model ----
(***************************************************************************)
(* A model of the wrapper layer of diligent_engine_rust:                   *)
(*   - SampleApp::run, the sample harness loop (samples/sample_app.rs);    *)
(*   - the pass-through proxies ShaderResourceBinding and EngineFactory    *)
(*     (core/shader_resource_binding.rs, core/engine_factory.rs);          *)
(*   - the conversion EngineCreateInfo -> bindings::EngineCreateInfo.      *)
(* The native engine, the window event handler, the ImGui layer and the    *)
(* sample are external collaborators: their answers are nondeterministic   *)
(* choices, and every call the wrapper makes on them is appended to a log. *)
(***************************************************************************)
EXTENDS Integers, Sequences, FiniteSets

VARIABLES
    \* ---- SampleApp::run ----
    pc,            \* position of run: "poll", "update", "render", "update_ui",
                   \* "imgui_render", "present", "returned"
    log,           \* every call run has made on its collaborators, in order
    events,        \* number of events poll_event has returned so far
    frames,        \* number of frames presented so far
    vsync,         \* SampleApp.vsync
    current_time,  \* SampleApp.current_time
    swap_chain,    \* native swap chain: its descriptor and current back buffer
    bound,         \* render targets bound on the immediate context
    result,        \* what run has returned: "running" until it returns
    \* ---- proxies ----
    srb,           \* the ShaderResourceBinding wrapper
    factory,       \* the EngineFactory wrapper
    ctor,          \* the pointers the two wrappers were constructed with
    wrapper_calls, \* the calls made on the wrappers, with what each returned
    native_calls,  \* the calls that reached the native function tables
    \* ---- conversion ----
    info,          \* an EngineCreateInfo
    native_info    \* bindings::EngineCreateInfo::from(&info), once converted

runVars   == <<pc, log, events, frames, vsync, current_time, swap_chain, bound, result>>
proxyVars == <<srb, factory, ctor, wrapper_calls, native_calls>>
convVars  == <<info, native_info>>
vars      == <<runVars, proxyVars, convVars>>

\* Bounds of the model.
MaxEvents == 2
MaxFrames == 2
BackBufferCount == 2
MaxCalls == 2
MaxContexts == 1

(***************************************************************************)
(* SampleApp::run                                                          *)
(***************************************************************************)

\* The window size a Resize event asks for, and the sizes the swap chain may
\* hold once the native resize has returned (the requested one or another).
RequestSizes == { [Width |-> 800, Height |-> 600] }
Sizes == RequestSizes \cup { [Width |-> 640, Height |-> 480] }

\* EventResult, as run matches on it: Quit, Continue, Resize{width, height}
\* and the remaining variants, which run treats alike.
EvQuit     == [kind |-> "Quit", width |-> 0, height |-> 0]
EvContinue == [kind |-> "Continue", width |-> 0, height |-> 0]
EvOther    == [kind |-> "Other", width |-> 0, height |-> 0]
EvResize(width, height) == [kind |-> "Resize", width |-> width, height |-> height]
EventResults ==
    {EvQuit, EvContinue, EvOther} \cup { EvResize(s.Width, s.Height) : s \in RequestSizes }

\* Texture views.
NoView        == [kind |-> "none", idx |-> 0]
BackBufferRTV(i) == [kind |-> "back_buffer", idx |-> i]
DepthDSV      == [kind |-> "depth", idx |-> 0]
OffscreenRTV  == [kind |-> "offscreen", idx |-> 0]
OffscreenDSV  == [kind |-> "offscreen_depth", idx |-> 0]
Unbound       == [rtv |-> NoView, dsv |-> NoView]
\* What a sample may leave bound when its render returns.
SampleBindings(default) ==
    { default, [rtv |-> OffscreenRTV, dsv |-> OffscreenDSV] }

\* One entry of the call log: the call and the arguments (for get_desc and
\* imgui_handle_event also the value returned) that matter for it.
Call(op)             == [op |-> op]
CallSeq(op, seq)     == [op |-> op, seq |-> seq]
CallEv(op, seq, ev)  == [op |-> op, seq |-> seq, ev |-> ev]
CallRet(op, seq, ev, ret) == [op |-> op, seq |-> seq, ev |-> ev, ret |-> ret]
CallWH(op, w, h)     == [op |-> op, w |-> w, h |-> h]
CallRT(op, rtv, dsv) == [op |-> op, rtv |-> rtv, dsv |-> dsv]

\* `width as u32`: the zero-extension of an unsigned 16-bit window dimension,
\* which keeps its value (a value outside 0..65535 is first cut to 16 bits).
AsU32(x) == x % 65536

\* A window_resize that hands the sample the requested size.
window_resize_requested(width, height, desc) ==
    << Call("sample.pre_window_resize"),
       CallWH("swap_chain.resize", width, height),
       CallWH("swap_chain.get_desc", desc.Width, desc.Height),
       CallWH("sample.window_resize", width, height) >>

\* SampleApp::window_resize: the calls it makes; desc is the descriptor the
\* swap chain holds once the native resize has returned (the get_desc entry
\* records the descriptor returned).
window_resize(width, height, desc) ==
    << Call("sample.pre_window_resize"),
       CallWH("swap_chain.resize", width, height),
       CallWH("swap_chain.get_desc", desc.Width, desc.Height),
       CallWH("sample.window_resize", desc.Width, desc.Height) >>

\* A match without the Quit arm.
run_match_no_break(ev) ==
    CASE ev.kind = "Resize"   -> "window_resize"
      [] OTHER                -> "nothing"

\* The match on the EventResult in run.
run_match(ev) ==
    CASE ev.kind = "Quit"     -> "break"
      [] ev.kind = "Continue" -> "nothing"
      [] ev.kind = "Resize"   -> "window_resize"
      [] OTHER                -> "nothing"

\* A forwarding that hands the sample the result ImGui was given.
run_forward_bypass(seq, ev, fwd) ==
    << CallRet("imgui_handle_event", seq, ev, fwd),
       CallEv("sample.handle_event", seq, ev) >>

\* The tail of the event loop's body: the result goes to ImGui, and what ImGui
\* returns (fwd) goes to the sample.
run_forward(seq, ev, fwd) ==
    << CallRet("imgui_handle_event", seq, ev, fwd),
       CallEv("sample.handle_event", seq, fwd) >>

\* What imgui_handle_event may return for an EventResult: the result itself, or
\* Continue when ImGui has captured the input.
ImguiResults(ev) == {ev, EvContinue}

\* One iteration of `while let Some(event) = event_handler.poll_event()`.
run_event ==
    /\ pc = "poll"
    /\ events < MaxEvents
    /\ \E ev \in EventResults, desc \in Sizes :
       \E fwd \in ImguiResults(ev) :
         LET seq    == events + 1
             polled == << CallSeq("event_handler.poll_event", seq),
                          CallEv("event_handler.handle_event", seq, ev) >>
             arm    == run_match(ev)
         IN  /\ events' = seq
             /\ IF arm = "break"
                THEN /\ log' = log \o polled
                     /\ pc' = "returned"
                     /\ result' = "Ok"
                     /\ UNCHANGED swap_chain
                ELSE /\ log' = log \o polled
                              \o (IF arm = "window_resize"
                                  THEN window_resize(AsU32(ev.width), AsU32(ev.height), desc)
                                  ELSE << >>)
                              \o run_forward(seq, ev, fwd)
                     /\ pc' = "poll"
                     /\ UNCHANGED result
                     /\ swap_chain' = IF arm = "window_resize"
                                      THEN [swap_chain EXCEPT !.desc = desc]
                                      ELSE swap_chain
    /\ UNCHANGED <<frames, vsync, current_time, bound>>

\* A loop that goes from the drained event queue straight to render.
run_drained_no_update ==
    /\ pc = "poll"
    /\ frames < MaxFrames
    /\ log' = Append(log, CallSeq("event_handler.poll_event", 0))
    /\ pc' = "render"
    /\ UNCHANGED <<events, frames, vsync, current_time, swap_chain, bound, result>>

\* poll_event returns None: the while loop ends.
run_drained ==
    /\ pc = "poll"
    /\ frames < MaxFrames
    /\ log' = Append(log, CallSeq("event_handler.poll_event", 0))
    /\ pc' = "update"
    /\ UNCHANGED <<events, frames, vsync, current_time, swap_chain, bound, result>>

\* SampleApp::update, called as self.update(0.0, 0.0).
update ==
    /\ pc = "update"
    /\ current_time' = 0
    /\ log' = Append(log, Call("sample.update"))
    /\ pc' = "render"
    /\ UNCHANGED <<events, frames, vsync, swap_chain, bound, result>>

\* A render without the second set_render_targets.
render_no_restore(rtv, dsv, sample_bound) ==
    [ calls |-> << Call("context.clear_stats"),
                   Call("swap_chain.get_current_back_buffer_rtv"),
                   Call("swap_chain.get_depth_buffer_dsv"),
                   CallRT("context.set_render_targets", rtv, dsv),
                   CallRT("sample.render", sample_bound.rtv, sample_bound.dsv) >>,
      bound |-> sample_bound ]

\* SampleApp::render: the calls it makes and the render targets bound when it
\* returns; sample_bound is what sample.render left bound (recorded in the
\* sample.render entry).
render_effect(rtv, dsv, sample_bound) ==
    [ calls |-> << Call("context.clear_stats"),
                   Call("swap_chain.get_current_back_buffer_rtv"),
                   Call("swap_chain.get_depth_buffer_dsv"),
                   CallRT("context.set_render_targets", rtv, dsv),
                   CallRT("sample.render", sample_bound.rtv, sample_bound.dsv),
                   CallRT("context.set_render_targets", rtv, dsv) >>,
      bound |-> [rtv |-> rtv, dsv |-> dsv] ]

\* self.render() in run, on the swap chain's current back buffer.
render ==
    /\ pc = "render"
    /\ \E sample_bound \in SampleBindings([rtv |-> BackBufferRTV(swap_chain.back_buffer),
                                            dsv |-> DepthDSV]) :
         LET eff == render_effect(BackBufferRTV(swap_chain.back_buffer), DepthDSV, sample_bound)
         IN  /\ log' = log \o eff.calls
             /\ bound' = eff.bound
    /\ pc' = "update_ui"
    /\ UNCHANGED <<events, frames, vsync, current_time, swap_chain, result>>

\* SampleApp::update_ui: a new ImGui frame; the VSync checkbox writes vsync.
update_ui ==
    /\ pc = "update_ui"
    /\ log' = log \o << Call("imgui_renderer.new_frame"),
                        CallWH("swap_chain.get_desc",
                               swap_chain.desc.Width, swap_chain.desc.Height) >>
    /\ vsync' \in BOOLEAN
    /\ pc' = "imgui_render"
    /\ UNCHANGED <<events, frames, current_time, swap_chain, bound, result>>

\* ImguiRenderer::render draws into the render targets that are bound.
ImguiRendererRender(b) == b

\* self.imgui_renderer.render(immediate context, render device) in run.
run_imgui_render ==
    /\ pc = "imgui_render"
    /\ log' = Append(log, Call("imgui_renderer.render"))
    /\ bound' = ImguiRendererRender(bound)
    /\ pc' = "present"
    /\ UNCHANGED <<events, frames, vsync, current_time, swap_chain, result>>

\* SampleApp::present; the swap chain moves on to its next back buffer.
present ==
    /\ pc = "present"
    /\ log' = Append(log, Call("swap_chain.present"))
    /\ swap_chain' = [swap_chain EXCEPT !.back_buffer = (@ + 1) % BackBufferCount]
    /\ frames' = frames + 1
    /\ pc' = "poll"
    /\ UNCHANGED <<events, vsync, current_time, bound, result>>

(***************************************************************************)
(* The proxies: ShaderResourceBinding and EngineFactory                    *)
(***************************************************************************)

Null == "null"

\* The native objects a wrapper may be built on, and the other pointers and
\* values callers pass.
SrbPtrs          == {"srb_a", "srb_b"}
FactoryPtrs      == {"factory_a", "factory_b"}
BlobPtrs         == {"blob_a"}
ResourceMappings == { [m_resource_mapping |-> "mapping_a"],
                      [m_resource_mapping |-> "mapping_b"] }
ShaderTypes      == {1, 2}
BindFlags        == {0, 1}
VariableTypeFlags == {0, 3}
Callbacks        == {Null, "callback_a"}
BlobSizes        == {0, 16}
BlobData         == {Null, "data_a"}

\* (*ptr).pVtbl: the function table of a native object.
pVtbl(ptr) == [table_of |-> ptr]

\* ShaderResourceBinding::new
ShaderResourceBindingNew(srb_ptr) ==
    [ m_shader_resource_binding |-> srb_ptr,
      m_virtual_functions       |-> pVtbl(srb_ptr),
      m_object                  |-> srb_ptr ]

\* EngineFactory::new
EngineFactoryNew(engine_factory_ptr) ==
    [ engine_factory    |-> engine_factory_ptr,
      virtual_functions |-> pVtbl(engine_factory_ptr),
      _object           |-> engine_factory_ptr ]

\* DataBlob::new
DataBlobNew(data_blob_ptr) ==
    [ m_data_blob |-> data_blob_ptr, m_virtual_functions |-> pVtbl(data_blob_ptr) ]

None    == [tag |-> "None"]
Some(x) == [tag |-> "Some", value |-> x]
Panic   == [tag |-> "panic"]
Unit    == "()"

\* One call through a native function table: the table, the entry, the object
\* it is called on, the arguments, what it returns and what it stores through
\* its output pointer.
NativeCall(vtbl, fn, this, args, ret, out) ==
    [vtbl |-> vtbl, fn |-> fn, this |-> this, args |-> args, ret |-> ret, out |-> out]

\* One call on a wrapper, as its caller sees it.
WrapperCall(fn, args, ret) == [fn |-> fn, args |-> args, ret |-> ret]

\* Each wrapper method below yields the native calls it makes and the value it
\* returns; answer is what the native function returns (or stores).

\* A check_resources that goes through the BindResources entry and has nothing
\* to return.
check_resources_as_bind(self, shader_stages, resource_mapping, flags, answer) ==
    [ native |-> << NativeCall(self.m_virtual_functions, "ShaderResourceBinding.BindResources",
                               self.m_shader_resource_binding,
                               <<shader_stages, resource_mapping.m_resource_mapping, flags>>,
                               Unit, Null) >>,
      ret    |-> 0 ]

\* ShaderResourceBinding::bind_resources
bind_resources(self, shader_stages, resource_mapping, flags, answer) ==
    [ native |-> << NativeCall(self.m_virtual_functions, "ShaderResourceBinding.BindResources",
                               self.m_shader_resource_binding,
                               <<shader_stages, resource_mapping.m_resource_mapping, flags>>,
                               answer, Null) >>,
      ret    |-> answer ]

\* ShaderResourceBinding::check_resources
check_resources(self, shader_stages, resource_mapping, flags, answer) ==
    [ native |-> << NativeCall(self.m_virtual_functions, "ShaderResourceBinding.CheckResources",
                               self.m_shader_resource_binding,
                               <<shader_stages, resource_mapping.m_resource_mapping, flags>>,
                               answer, Null) >>,
      ret    |-> answer ]

\* ShaderResourceBinding::static_resources_initialized
static_resources_initialized(self, answer) ==
    [ native |-> << NativeCall(self.m_virtual_functions,
                               "ShaderResourceBinding.StaticResourcesInitialized",
                               self.m_shader_resource_binding, << >>, answer, Null) >>,
      ret    |-> answer ]

\* EngineFactory::set_message_callback
set_message_callback(self, callback, answer) ==
    [ native |-> << NativeCall(self.virtual_functions, "EngineFactory.SetMessageCallback",
                               self.engine_factory, <<callback>>, answer, Null) >>,
      ret    |-> answer ]

\* EngineFactory::set_break_on_error
set_break_on_error(self, break_on_error, answer) ==
    [ native |-> << NativeCall(self.virtual_functions, "EngineFactory.SetBreakOnError",
                               self.engine_factory, <<break_on_error>>, answer, Null) >>,
      ret    |-> answer ]

\* A create_data_blob that unwraps the output pointer instead of testing it.
create_data_blob_unwrap(self, initial_size, data, stored) ==
    [ native |-> << NativeCall(self.virtual_functions, "EngineFactory.CreateDataBlob",
                               self.engine_factory, <<initial_size, data>>, Unit, stored) >>,
      ret    |-> IF stored = Null THEN Panic ELSE Some(DataBlobNew(stored)) ]

\* EngineFactory::create_data_blob; stored is what the native call leaves in
\* data_blob_ptr, which starts out null.
create_data_blob(self, initial_size, data, stored) ==
    [ native |-> << NativeCall(self.virtual_functions, "EngineFactory.CreateDataBlob",
                               self.engine_factory, <<initial_size, data>>, Unit, stored) >>,
      ret    |-> IF stored = Null THEN None ELSE Some(DataBlobNew(stored)) ]

\* A caller's call on a wrapper: the native calls reach the engine and the
\* caller gets the return value. The wrappers hold no field a method writes.
Called(fn, args, effect) ==
    /\ Len(wrapper_calls) < MaxCalls
    /\ wrapper_calls' = Append(wrapper_calls, WrapperCall(fn, args, effect.ret))
    /\ native_calls' = native_calls \o effect.native
    /\ UNCHANGED <<srb, factory, ctor>>

CallBindResources ==
    \E st \in ShaderTypes, rm \in ResourceMappings, fl \in BindFlags :
        Called("bind_resources", <<st, rm, fl>>, bind_resources(srb, st, rm, fl, Unit))

CallCheckResources ==
    \E st \in ShaderTypes, rm \in ResourceMappings, fl \in BindFlags :
      \E answer \in VariableTypeFlags :
        Called("check_resources", <<st, rm, fl>>, check_resources(srb, st, rm, fl, answer))

CallStaticResourcesInitialized ==
    \E answer \in BOOLEAN :
        Called("static_resources_initialized", << >>,
               static_resources_initialized(srb, answer))

CallSetMessageCallback ==
    \E cb \in Callbacks :
        Called("set_message_callback", <<cb>>, set_message_callback(factory, cb, Unit))

CallSetBreakOnError ==
    \E b \in BOOLEAN :
        Called("set_break_on_error", <<b>>, set_break_on_error(factory, b, Unit))

CallCreateDataBlob ==
    \E size \in BlobSizes, data \in BlobData, stored \in BlobPtrs \cup {Null} :
        Called("create_data_blob", <<size, data>>,
               create_data_blob(factory, size, data, stored))

ProxyInit ==
    /\ \E ps \in SrbPtrs, pf \in FactoryPtrs :
         /\ srb = ShaderResourceBindingNew(ps)
         /\ factory = EngineFactoryNew(pf)
         /\ ctor = [srb |-> ps, factory |-> pf]
    /\ wrapper_calls = << >>
    /\ native_calls = << >>

(***************************************************************************)
(* EngineCreateInfo and its conversion to bindings::EngineCreateInfo       *)
(***************************************************************************)

\* A 32-bit unsigned value as its two 16-bit halves.
U32(hi, lo) == <<hi, lo>>

\* Values of the fields; the constants of the native bindings are kept by name.
ApiVersions     == {"DILIGENT_API_VERSION", "api_version_other"}
AdapterIds      == {"DEFAULT_ADAPTER_ID", "adapter_1"}
Versions        == { [Major |-> 0, Minor |-> 0], [Major |-> 1, Minor |-> 3] }
ContextCounts   == 0 .. MaxContexts
DeviceFeatures  == {"DeviceFeatures::default", "device_features_other"}
ValidationFlags == {"VALIDATION_FLAG_NONE", "VALIDATION_FLAG_CHECK_SHADER_BUFFER_SIZE"}
ThreadCounts    == { U32(0, 0), U32(0, 4), U32(65535, 65535) }
Paddings        == {0, 1}

EngineCreateInfos ==
    [ engine_api_version     : ApiVersions,
      adapter_id             : AdapterIds,
      graphics_api_version   : Versions,
      num_immediate_contexts : ContextCounts,
      num_deferred_contexts  : ContextCounts,
      features               : DeviceFeatures,
      enable_validation      : BOOLEAN,
      validation_flags       : ValidationFlags,
      num_async_shader_compilation_threads : ThreadCounts,
      padding                : Paddings ]

\* impl Default for EngineCreateInfo; enable_validation follows the build's
\* debug_assertions.
Default(debug_assertions) ==
    [ engine_api_version     |-> "DILIGENT_API_VERSION",
      adapter_id             |-> "DEFAULT_ADAPTER_ID",
      graphics_api_version   |-> [Major |-> 0, Minor |-> 0],
      num_immediate_contexts |-> 0,
      num_deferred_contexts  |-> 0,
      features               |-> "DeviceFeatures::default",
      enable_validation      |-> debug_assertions,
      validation_flags       |-> "VALIDATION_FLAG_NONE",
      num_async_shader_compilation_threads |-> U32(65535, 65535),
      padding                |-> 0 ]

\* A conversion that takes both context counts from num_immediate_contexts.
from_one_count(value) ==
    [ EngineAPIVersion      |-> value.engine_api_version,
      AdapterId             |-> value.adapter_id,
      GraphicsAPIVersion    |-> value.graphics_api_version,
      pImmediateContextInfo |-> Null,
      NumImmediateContexts  |-> value.num_immediate_contexts,
      NumDeferredContexts   |-> value.num_immediate_contexts,
      Features              |-> value.features,
      EnableValidation      |-> value.enable_validation,
      ValidationFlags       |-> value.validation_flags,
      pRawMemAllocator      |-> Null,
      pAsyncShaderCompilationThreadPool |-> Null,
      NumAsyncShaderCompilationThreads  |-> value.num_async_shader_compilation_threads,
      Padding               |-> value.padding,
      pXRAttribs            |-> Null ]

\* impl From<&EngineCreateInfo> for bindings::EngineCreateInfo
from(value) ==
    [ EngineAPIVersion      |-> value.engine_api_version,
      AdapterId             |-> value.adapter_id,
      GraphicsAPIVersion    |-> value.graphics_api_version,
      pImmediateContextInfo |-> Null,
      NumImmediateContexts  |-> value.num_immediate_contexts,
      NumDeferredContexts   |-> value.num_deferred_contexts,
      Features              |-> value.features,
      EnableValidation      |-> value.enable_validation,
      ValidationFlags       |-> value.validation_flags,
      pRawMemAllocator      |-> Null,
      pAsyncShaderCompilationThreadPool |-> Null,
      NumAsyncShaderCompilationThreads  |-> value.num_async_shader_compilation_threads,
      Padding               |-> value.padding,
      pXRAttribs            |-> Null ]

NotConverted == [converted |-> FALSE]

\* bindings::EngineCreateInfo::from(&info)
Convert ==
    /\ native_info = NotConverted
    /\ native_info' = from(info)
    /\ UNCHANGED info

ConvInit ==
    /\ info \in EngineCreateInfos \cup { Default(d) : d \in BOOLEAN }
    /\ native_info = NotConverted

RunInit ==
    /\ pc = "poll"
    /\ log = << >>
    /\ events = 0
    /\ frames = 0
    /\ vsync = FALSE
    /\ current_time = 0
    /\ swap_chain = [desc |-> [Width |-> 640, Height |-> 480], back_buffer |-> 0]
    /\ bound = Unbound
    /\ result = "running"

RunIdle ==
    /\ pc = "poll"
    /\ log = << >>
    /\ events = 0
    /\ frames = 0
    /\ vsync = FALSE
    /\ current_time = 0
    /\ swap_chain = [desc |-> [Width |-> 640, Height |-> 480], back_buffer |-> 0]
    /\ bound = Unbound
    /\ result = "running"

ProxyIdle ==
    /\ srb = ShaderResourceBindingNew("srb_a")
    /\ factory = EngineFactoryNew("factory_a")
    /\ ctor = [srb |-> "srb_a", factory |-> "factory_a"]
    /\ wrapper_calls = << >>
    /\ native_calls = << >>

ConvIdle ==
    /\ info = Default(TRUE)
    /\ native_info = NotConverted

Init == RunInit /\ ProxyIdle /\ ConvIdle

Next ==
    \/ run_event /\ UNCHANGED <<proxyVars, convVars>>
    \/ run_drained /\ UNCHANGED <<proxyVars, convVars>>
    \/ update /\ UNCHANGED <<proxyVars, convVars>>
    \/ render /\ UNCHANGED <<proxyVars, convVars>>
    \/ update_ui /\ UNCHANGED <<proxyVars, convVars>>
    \/ run_imgui_render /\ UNCHANGED <<proxyVars, convVars>>
    \/ present /\ UNCHANGED <<proxyVars, convVars>>

Spec == Init /\ [][Next]_vars

InitProxy == ProxyInit /\ RunIdle /\ ConvIdle

NextProxy ==
    \/ CallBindResources /\ UNCHANGED <<runVars, convVars>>
    \/ CallCheckResources /\ UNCHANGED <<runVars, convVars>>
    \/ CallStaticResourcesInitialized /\ UNCHANGED <<runVars, convVars>>
    \/ CallSetMessageCallback /\ UNCHANGED <<runVars, convVars>>
    \/ CallSetBreakOnError /\ UNCHANGED <<runVars, convVars>>
    \/ CallCreateDataBlob /\ UNCHANGED <<runVars, convVars>>

SpecProxy == InitProxy /\ [][NextProxy]_vars

InitConv == ConvInit /\ RunIdle /\ ProxyIdle

NextConv == Convert /\ UNCHANGED <<runVars, proxyVars>>

SpecConv == InitConv /\ [][NextConv]_vars

(***************************************************************************)
(* Properties of SampleApp::run                                            *)
(***************************************************************************)

Max(S) == CHOOSE x \in S : \A y \in S : y <= x
Min(S) == CHOOSE x \in S : \A y \in S : x <= y

Indices(op) == { i \in DOMAIN log : log[i].op = op }
IsPollSome(i) == log[i].op = "event_handler.poll_event" /\ log[i].seq > 0
IsPollNone(i) == log[i].op = "event_handler.poll_event" /\ log[i].seq = 0
IsHandled(i, kind) ==
    log[i].op = "event_handler.handle_event" /\ log[i].ev.kind = kind

\* The log index of the present before index i, 0 if there is none.
PrevPresent(i) ==
    LET S == { j \in Indices("swap_chain.present") : j < i }
    IN  IF S = {} THEN 0 ELSE Max(S)

\* The calls that mark the steps of one iteration of run's main loop.
StepOps ==
    { "event_handler.poll_event", "sample.update", "sample.render",
      "imgui_renderer.new_frame", "imgui_renderer.render", "swap_chain.present" }
IsStep(e) == e.op \in StepOps

\* C1: every iteration of run's main loop that ends with a present has drained
\* the events first (polls up to the one poll that returned None), then made
\* exactly one update, one render, one update_ui (new_frame), one ImGui render
\* and the present, in this order, with no poll after the update.
FrameOrder ==
    LET P == Indices("swap_chain.present")
    IN  /\ Cardinality(P) = frames
        /\ \A p \in P :
             LET steps == SelectSeq(SubSeq(log, PrevPresent(p) + 1, p), IsStep)
                 k     == Len(steps) - 6
             IN  /\ k >= 0
                 /\ \A j \in 1 .. k :
                      steps[j].op = "event_handler.poll_event" /\ steps[j].seq > 0
                 /\ steps[k + 1].op = "event_handler.poll_event" /\ steps[k + 1].seq = 0
                 /\ steps[k + 2].op = "sample.update"
                 /\ steps[k + 3].op = "sample.render"
                 /\ steps[k + 4].op = "imgui_renderer.new_frame"
                 /\ steps[k + 5].op = "imgui_renderer.render"
                 /\ steps[k + 6].op = "swap_chain.present"

\* Two frames have been presented, and an event was handled in the second
\* iteration.
FrameOrderWitness ==
    /\ frames = 2
    /\ pc = "poll"
    /\ \E i \in DOMAIN log : IsPollSome(i) /\ PrevPresent(i) > 0

\* C5: run has returned exactly when handle_event has produced Quit; it then
\* has returned Ok(()), the Quit is the last call in the log (nothing is
\* polled, updated, rendered or presented after it), and the quit event was
\* never forwarded to ImGui or to the sample.
QuitReturns ==
    /\ result \in {"running", "Ok"}
    /\ (pc = "returned") <=> (result = "Ok")
    /\ (pc = "returned") <=> (\E i \in DOMAIN log : IsHandled(i, "Quit"))
    /\ \A i \in DOMAIN log : IsHandled(i, "Quit") =>
         /\ i = Len(log)
         /\ \A j \in DOMAIN log :
              log[j].op \in {"imgui_handle_event", "sample.handle_event"}
                  => log[j].seq # log[i].seq

\* run has returned after a frame was presented and an earlier event handled.
QuitReturnsWitness ==
    /\ pc = "returned"
    /\ result = "Ok"
    /\ frames >= 1
    /\ events = 2

\* C6: a Resize result is followed at once by sample.pre_window_resize,
\* swap_chain.resize with the requested size, a read of the swap chain's
\* descriptor, and sample.window_resize with the size read back; only then is
\* the event forwarded to ImGui and the sample. These calls are made for no
\* other reason.
ResizeProtocol ==
    /\ \A i \in DOMAIN log : IsHandled(i, "Resize") =>
         /\ i + 6 <= Len(log)
         /\ log[i + 1].op = "sample.pre_window_resize"
         /\ log[i + 2].op = "swap_chain.resize"
         /\ log[i + 2].w = log[i].ev.width /\ log[i + 2].h = log[i].ev.height
         /\ log[i + 3].op = "swap_chain.get_desc"
         /\ log[i + 4].op = "sample.window_resize"
         /\ log[i + 4].w = log[i + 3].w /\ log[i + 4].h = log[i + 3].h
         /\ log[i + 5].op = "imgui_handle_event" /\ log[i + 5].seq = log[i].seq
         /\ log[i + 6].op = "sample.handle_event" /\ log[i + 6].seq = log[i].seq
    /\ \A j \in DOMAIN log :
         /\ log[j].op = "sample.pre_window_resize" => j > 1 /\ IsHandled(j - 1, "Resize")
         /\ log[j].op = "swap_chain.resize" => j > 2 /\ IsHandled(j - 2, "Resize")
         /\ log[j].op = "sample.window_resize" => j > 4 /\ IsHandled(j - 4, "Resize")
    /\ LET D == Indices("swap_chain.get_desc")
       IN  D # {} => /\ log[Max(D)].w = swap_chain.desc.Width
                     /\ log[Max(D)].h = swap_chain.desc.Height

\* A resize after which the swap chain holds another size than the requested
\* one, and a frame presented after it.
ResizeProtocolWitness ==
    /\ frames >= 1
    /\ \E i \in DOMAIN log :
         /\ IsHandled(i, "Resize")
         /\ log[i + 4].op = "sample.window_resize"
         /\ log[i + 4].w # log[i + 2].w
         /\ \E p \in Indices("swap_chain.present") : p > i

\* C7: the k-th polled event is handled right after its poll; unless the result
\* is Quit it is passed once to imgui_handle_event, and what that returns is
\* passed once to sample.handle_event, right after; all of this before the next
\* poll, so the events are delivered in poll order.
EventDelivery ==
    LET Q == { i \in DOMAIN log : IsPollSome(i) }
        M == Indices("imgui_handle_event")
        S == Indices("sample.handle_event")
        H == { i \in Indices("event_handler.handle_event") : log[i].ev.kind # "Quit" }
    IN  /\ Cardinality(Q) = events
        /\ Cardinality(M) = Cardinality(H)
        /\ Cardinality(S) = Cardinality(H)
        /\ \A q \in Q :
             /\ log[q].seq = Cardinality({ j \in Q : j <= q })
             /\ q + 1 <= Len(log)
             /\ log[q + 1].op = "event_handler.handle_event"
             /\ log[q + 1].seq = log[q].seq
             /\ log[q + 1].ev.kind # "Quit" =>
                  LET later == { i \in M : i > q }
                      m     == Min(later)
                  IN  /\ later # {}
                      /\ log[m].seq = log[q].seq
                      /\ log[m].ev = log[q + 1].ev
                      /\ m + 1 \in S
                      /\ log[m + 1].seq = log[q].seq
                      /\ log[m + 1].ev = log[m].ret
                      /\ \A j \in (q + 1) .. (m + 1) :
                           log[j].op # "event_handler.poll_event"

\* Two events were delivered, one of them a Resize that ImGui turned into
\* Continue before the sample saw it.
EventDeliveryWitness ==
    /\ Cardinality(Indices("sample.handle_event")) = 2
    /\ \E m \in Indices("imgui_handle_event") :
         /\ log[m].ev.kind = "Resize"
         /\ log[m].ret # log[m].ev
         /\ log[m + 1].ev = log[m].ret

\* C8: SampleApp::render clears the statistics, binds the current back buffer's
\* view and the depth view right before sample.render and the same two views
\* right after it; from the return of render until the frame is presented the
\* bound render targets are the current back buffer and the depth buffer.
RenderRestoresTargets ==
    /\ pc \in {"update_ui", "imgui_render", "present"} =>
         bound = [rtv |-> BackBufferRTV(swap_chain.back_buffer), dsv |-> DepthDSV]
    /\ \A i \in Indices("sample.render") :
         /\ i - 4 >= 1 /\ i + 1 <= Len(log)
         /\ log[i - 4].op = "context.clear_stats"
         /\ log[i - 1].op = "context.set_render_targets"
         /\ log[i - 1].rtv =
              BackBufferRTV(Cardinality({ p \in Indices("swap_chain.present") : p < i })
                                % BackBufferCount)
         /\ log[i - 1].dsv = DepthDSV
         /\ log[i + 1] = log[i - 1]

\* The sample left its own render targets bound in the second frame, which is
\* about to be presented.
RenderRestoresTargetsWitness ==
    /\ pc = "present"
    /\ frames = 1
    /\ LET R == Indices("sample.render")
       IN  R # {} /\ log[Max(R)].rtv = OffscreenRTV

(***************************************************************************)
(* Properties of the proxies                                               *)
(***************************************************************************)

SrbMethods == {"bind_resources", "check_resources", "static_resources_initialized"}
ForwardingMethods == SrbMethods \cup {"set_message_callback", "set_break_on_error"}

\* The function-table entry each wrapper method stands for.
NativeEntry(fn) ==
    CASE fn = "bind_resources"   -> "ShaderResourceBinding.BindResources"
      [] fn = "check_resources"  -> "ShaderResourceBinding.CheckResources"
      [] fn = "static_resources_initialized"
                                 -> "ShaderResourceBinding.StaticResourcesInitialized"
      [] fn = "set_message_callback" -> "EngineFactory.SetMessageCallback"
      [] fn = "set_break_on_error"   -> "EngineFactory.SetBreakOnError"
      [] fn = "create_data_blob"     -> "EngineFactory.CreateDataBlob"

\* The caller's arguments as the native side must see them: a ResourceMapping
\* wrapper is passed as the native pointer it holds.
NativeArgs(w) ==
    IF w.fn \in {"bind_resources", "check_resources"}
    THEN <<w.args[1], w.args[2].m_resource_mapping, w.args[3]>>
    ELSE w.args

\* C2: the i-th call on a wrapper is the i-th native call: one call through the
\* function table of the object the wrapper was constructed with, on that
\* object, with the caller's arguments, and for the five forwarding methods the
\* wrapper returns what the native call returned; the wrappers' fields never
\* change.
ProxyPassThrough ==
    /\ srb.m_shader_resource_binding = ctor.srb
    /\ srb.m_virtual_functions = pVtbl(ctor.srb)
    /\ factory.engine_factory = ctor.factory
    /\ factory.virtual_functions = pVtbl(ctor.factory)
    /\ Len(native_calls) = Len(wrapper_calls)
    /\ \A i \in DOMAIN wrapper_calls :
         LET w == wrapper_calls[i]
             n == native_calls[i]
         IN  /\ i \in DOMAIN native_calls
             /\ n.fn = NativeEntry(w.fn)
             /\ n.this = IF w.fn \in SrbMethods THEN ctor.srb ELSE ctor.factory
             /\ n.vtbl = pVtbl(n.this)
             /\ n.args = NativeArgs(w)
             /\ w.fn \in ForwardingMethods => w.ret = n.ret

\* A check_resources that returned the native flags, followed by a call on the
\* engine factory.
ProxyPassThroughWitness ==
    /\ Len(wrapper_calls) = 2
    /\ wrapper_calls[1].fn = "check_resources"
    /\ wrapper_calls[1].ret = 3
    /\ wrapper_calls[2].fn = "set_break_on_error"
    /\ native_calls[2].args = <<TRUE>>

\* C3: create_data_blob makes exactly one native CreateDataBlob call; it
\* returns None exactly when that call left the output pointer null, Some of a
\* DataBlob on exactly that pointer otherwise, and it never panics.
CreateDataBlobResult ==
    /\ Cardinality({ i \in DOMAIN native_calls :
                       native_calls[i].fn = "EngineFactory.CreateDataBlob" })
         = Cardinality({ i \in DOMAIN wrapper_calls :
                           wrapper_calls[i].fn = "create_data_blob" })
    /\ \A i \in DOMAIN wrapper_calls :
         wrapper_calls[i].fn = "create_data_blob" =>
           LET w == wrapper_calls[i]
               n == native_calls[i]
           IN  /\ i \in DOMAIN native_calls
               /\ n.fn = "EngineFactory.CreateDataBlob"
               /\ n.this = ctor.factory
               /\ n.args = w.args
               /\ w.ret # Panic
               /\ (w.ret = None) <=> (n.out = Null)
               /\ n.out # Null =>
                    /\ w.ret.tag = "Some"
                    /\ w.ret.value.m_data_blob = n.out

\* One create_data_blob returned None and another Some.
CreateDataBlobResultWitness ==
    /\ Len(wrapper_calls) = 2
    /\ wrapper_calls[1].fn = "create_data_blob" /\ wrapper_calls[1].ret = None
    /\ wrapper_calls[2].fn = "create_data_blob" /\ wrapper_calls[2].ret.tag = "Some"
    /\ native_calls[2].out = "blob_a"

(***************************************************************************)
(* Properties of the conversion                                            *)
(***************************************************************************)

\* C4: the converted bindings::EngineCreateInfo holds every scalar field of the
\* EngineCreateInfo unchanged and null in its four pointer fields; converted
\* from the default EngineCreateInfo it has no immediate and no deferred
\* contexts and 0xFFFFFFFF async shader compilation threads.
ConversionCopiesFields ==
    native_info # NotConverted =>
        /\ native_info.EngineAPIVersion = info.engine_api_version
        /\ native_info.AdapterId = info.adapter_id
        /\ native_info.GraphicsAPIVersion = info.graphics_api_version
        /\ native_info.NumImmediateContexts = info.num_immediate_contexts
        /\ native_info.NumDeferredContexts = info.num_deferred_contexts
        /\ native_info.Features = info.features
        /\ native_info.EnableValidation = info.enable_validation
        /\ native_info.ValidationFlags = info.validation_flags
        /\ native_info.NumAsyncShaderCompilationThreads
             = info.num_async_shader_compilation_threads
        /\ native_info.Padding = info.padding
        /\ native_info.pImmediateContextInfo = Null
        /\ native_info.pRawMemAllocator = Null
        /\ native_info.pAsyncShaderCompilationThreadPool = Null
        /\ native_info.pXRAttribs = Null
        /\ info \in { Default(d) : d \in BOOLEAN } =>
             /\ native_info.NumImmediateContexts = 0
             /\ native_info.NumDeferredContexts = 0
             /\ native_info.NumAsyncShaderCompilationThreads = U32(65535, 65535)

\* The default EngineCreateInfo of a debug build has been converted.
ConversionCopiesFieldsWitness ==
    /\ info = Default(TRUE)
    /\ native_info # NotConverted
    /\ native_info.EnableValidation = TRUE
    /\ native_info.NumAsyncShaderCompilationThreads = U32(65535, 65535)

====
